---------------------------- MODULE Spec2Model ----------------------------
(***************************************************************************)
(* A model of smtp-s3-dump: the SMTP session handler (src/src/smtp.rs),    *)
(* the ingestion pipeline it calls (src/src/s3.rs, src/src/db.rs) and the  *)
(* TLS credential resolver (src/src/tls.rs).                               *)
(*                                                                         *)
(* Option<T> is a sequence of length at most one: None is << >> and        *)
(* Some(x) is <<x>>.  An address "local@domain", which the code builds     *)
(* with format!("{}@{}", ..), is the pair <<local, domain>>.               *)
(***************************************************************************)
EXTENDS Integers, Sequences, FiniteSets, TLC

VARIABLES
    config,        \* SmtpSession.config: the snapshot the session was created with
    from,          \* SmtpSession.from : Option<String>
    rcpt,          \* SmtpSession.rcpt : Option<String>
    data,          \* SmtpSession.data : Vec<u8>, as a sequence of body fragments
    pc,            \* position of the connection task
    job,           \* the upload_message call in progress (its arguments and locals)
                   \* row: the arguments it will pass to db::insert_mail
    done,          \* indices of the upload futures that have completed Ok
    blobs,         \* the objects the current handler call has put in the object store
    rows,          \* the rows the current handler call has inserted, in order
    last,          \* the handler call in progress, or the one that returned last
    since,         \* history: what mail and rcpt did since the last reset()
    chunks,        \* history: the chunks read for the body of the current transaction
    accepted,      \* history: the rcpt calls accepted in the current transaction
    cert_file,     \* the file at cert_path: None when absent, else its PEM items
    key_file,      \* the file at key_path: None when absent, else its PEM items
    certified_key, \* CertificateResolver.certified_key: the installed pair
    refresh,       \* the refresh() call of the watcher task: its position and locals
    loads,         \* number of load_certs_and_key calls made so far
    handshakes,    \* per connection, the pair resolve() gave its TLS handshake
    loaded,        \* history: the pair the last successful load returned
    watch,         \* notify::watch_certs: the debouncer, its channel and the spawned task
    conn           \* handle_smtp_connection: the stream, its smtpbis::Config, the upgrade

sessionVars ==
    <<config, from, rcpt, data, pc, job, done, blobs, rows, last, since, chunks, accepted>>

tlsVars == <<cert_file, key_file, certified_key, refresh, loads, handshakes, loaded>>

\* the locals of the tasks that main.rs starts
mainVars == <<watch, conn>>

vars == <<sessionVars, tlsVars, mainVars>>

-----------------------------------------------------------------------------
(* Bounds *)

MaxLen == 2            \* longest session buffer, in body fragments
MaxVersion == 2        \* versions of the certificate and of the key written to disk
MaxLoads == 2          \* refresh() calls followed
NumConns == 1          \* connections that do a TLS handshake

-----------------------------------------------------------------------------
(* Option *)

None == << >>
Some(x) == <<x>>
IsSome(o) == o /= << >>
Unwrap(o) == o[1]

-----------------------------------------------------------------------------
(* Inputs of a session: what the transport hands to the handler *)

Format(mailbox, domain) == <<mailbox, domain>>

\* MAIL FROM: the null reverse-path, or a mailbox
ReversePaths ==
    { None, Some(<<"a", "x.com">>), Some(<<"c", "x.com">>) }

\* RCPT TO: a mailbox (written in upper case), or the unqualified postmaster
ForwardPaths ==
    { [kind |-> "Path", mailbox |-> <<"B", "y.com">>],
      [kind |-> "PostMaster", mailbox |-> <<"postmaster", "">>] }

ServerDomain == "gw.test"

\* the Arc<ServerConfig> that main builds with tls::safe_tls_config
ServerConfig == "safe_tls_config"

\* the configuration snapshots a session can be created with
Configs ==
    [ allowed_rcpts : { None, Some({ Format("b", "y.com"), Format("postmaster", ServerDomain) }) },
      allowed_froms : { None, Some({ Format("a", "x.com") }) },
      check_db      : BOOLEAN,
      domain        : { ServerDomain },
      tls_config    : { ServerConfig } ]

\* what db::check_address answers: Ok(true), Ok(false) or Err
DbAnswers == { "true", "false", "error" }

-----------------------------------------------------------------------------
(* The record of the last handler call *)

(* op: the handler; outcome: "running", "returned" (with reply), "error" (a  *)
(* ServerError went to the transport) or "panicked"; db: what the database *)
(* answered to the call, "none" when it was not asked; invoked: whether    *)
(* the call has called s3::upload_message; arg: the argument of the call,   *)
(* the reverse-path of a mail, the resolved recipient of an rcpt and the    *)
(* last flag of a bdat.                                                    *)

Call(op, outcome, reply, db, invoked, arg) ==
    [op |-> op, outcome |-> outcome, reply |-> reply, db |-> db, invoked |-> invoked,
     arg |-> arg]
Returned(op, reply, db) == Call(op, "returned", reply, db, FALSE, None)
Running(op) == Call(op, "running", None, "none", FALSE, None)

\* a handler call starts: nothing has been put or inserted by it yet
NoEffects == blobs' = {} /\ rows' = << >>

NoJob == [cmd |-> "none", uploads |-> << >>, row |-> None, from |-> None, rcpt |-> None]

\* no rcpt accepted yet in the transaction: the last accepted recipient and
\* how many were accepted (counted up to 2).  A transaction ends with reset()
\* or when the data or bdat call that took the envelope ends.
NoneAccepted == [rcpt |-> None, n |-> 0]

\* counting up to 2
Count(n) == IF n < 2 THEN n + 1 ELSE 2

-----------------------------------------------------------------------------
(* SmtpBackend::new_session *)

InitSession ==
    /\ config \in Configs
    /\ from = None
    /\ rcpt = None
    /\ data = << >>
    /\ pc = "idle"
    /\ job = NoJob
    /\ done = {}
    /\ blobs = {}
    /\ rows = << >>
    /\ last = Returned("new_session", None, "none")
    /\ since = [mail |-> FALSE, rcpt |-> FALSE]
    /\ chunks = << >>
    /\ accepted = NoneAccepted

-----------------------------------------------------------------------------
(* SmtpSession::reset and the handlers that only reset *)

\* a variant of reset() that keeps the buffer
reset_fields_keeping_data == [from |-> None, rcpt |-> None, data |-> data]

\* the fields of the session after reset()
reset_fields == [from |-> None, rcpt |-> None, data |-> << >>]

reset ==
    /\ from' = reset_fields.from
    /\ rcpt' = reset_fields.rcpt
    /\ data' = reset_fields.data
    /\ since' = [mail |-> FALSE, rcpt |-> FALSE]
    /\ chunks' = << >>
    /\ accepted' = NoneAccepted

ehlo ==
    /\ pc = "idle"
    /\ reset
    /\ last' = Returned("ehlo", None, "none")
    /\ NoEffects
    /\ UNCHANGED <<config, pc, job, done, tlsVars, mainVars>>

helo ==
    /\ pc = "idle"
    /\ reset
    /\ last' = Returned("helo", None, "none")
    /\ NoEffects
    /\ UNCHANGED <<config, pc, job, done, tlsVars, mainVars>>

rset ==
    /\ pc = "idle"
    /\ reset
    /\ last' = Returned("rset", None, "none")
    /\ NoEffects
    /\ UNCHANGED <<config, pc, job, done, tlsVars, mainVars>>

-----------------------------------------------------------------------------
(* SmtpSession::mail *)

\* the sender after mail(path): set only when the reverse-path has a mailbox
mail_from(old, path) ==
    IF IsSome(path) THEN Some(Format(Unwrap(path)[1], Unwrap(path)[2])) ELSE old

mail(path) ==
    /\ pc = "idle"
    /\ from' = mail_from(from, path)
    /\ since' = [since EXCEPT !.mail = @ \/ IsSome(path)]
    /\ last' = [Returned("mail", None, "none") EXCEPT !.arg = Some(path)]
    /\ NoEffects
    /\ UNCHANGED <<config, rcpt, data, pc, job, done, chunks, accepted, tlsVars, mainVars>>

-----------------------------------------------------------------------------
(* SmtpSession::rcpt *)

\* ForwardPath::into_mailbox: the postmaster is qualified with the server's domain
into_mailbox(path, domain) ==
    IF path.kind = "PostMaster" THEN <<"postmaster", domain>> ELSE path.mailbox

resolved(path) ==
    LET m == into_mailbox(path, config.domain) IN Format(m[1], m[2])

\* a variant with the negation of line 194 dropped
rcpt_refused_negated(cfg, r) ==
    IsSome(cfg.allowed_rcpts) /\ r \in Unwrap(cfg.allowed_rcpts)

\* lines 190-198: the recipient allow-set refuses the recipient
rcpt_refused(cfg, r) ==
    IsSome(cfg.allowed_rcpts) /\ r \notin Unwrap(cfg.allowed_rcpts)

\* a variant that lets every address through
check_address_any(allowed_map, addr) == TRUE

check_address(allowed_map, addr) ==
    IF IsSome(allowed_map) THEN addr \in Unwrap(allowed_map) ELSE TRUE

\* a variant that asks the database whatever the flag says
db_asked_always(cfg) == TRUE

\* line 210: the database is asked only when check_db is set
db_asked(cfg) == cfg.check_db

\* the reply of rcpt for sender f and resolved recipient r; answer is what the
\* database says when it is asked.  None means the recipient is accepted.
rcpt_reply(cfg, f, r, answer) ==
    IF rcpt_refused(cfg, r) THEN Some(550)
    ELSE IF ~check_address(cfg.allowed_froms, f) THEN Some(550)
    ELSE IF db_asked(cfg) /\ answer = "false" THEN Some(550)
    ELSE IF db_asked(cfg) /\ answer = "error" THEN Some(451)
    ELSE None

\* whether rcpt reaches db::check_address
rcpt_asks_db(cfg, f, r) ==
    /\ ~rcpt_refused(cfg, r)
    /\ check_address(cfg.allowed_froms, f)
    /\ db_asked(cfg)

\* a variant that stores the recipient before the checks have passed
rcpt_stored_unchecked(old, r, reply) == Some(r)

\* a variant that keeps the first accepted recipient
rcpt_stored_first(old, r, reply) == IF reply = None /\ old = None THEN Some(r) ELSE old

\* line 225 is reached only when no reply was returned
rcpt_stored(old, r, reply) == IF reply = None THEN Some(r) ELSE old

rcpt_panic(path) ==
    /\ pc = "idle"
    /\ from = None                       \* self.from.as_ref().unwrap()
    /\ pc' = "panicked"
    /\ last' = Call("rcpt", "panicked", None, "none", FALSE, Some(resolved(path)))
    /\ NoEffects
    /\ UNCHANGED <<config, from, rcpt, data, job, done, since, chunks, accepted, tlsVars, mainVars>>

rcpt_checked(path) ==
    /\ pc = "idle"
    /\ from /= None
    /\ LET r == resolved(path)
           f == Unwrap(from)
           asks == rcpt_asks_db(config, f, r)
       IN \E answer \in (IF asks THEN DbAnswers ELSE {"none"}) :
            LET reply == rcpt_reply(config, f, r, answer) IN
            /\ rcpt' = rcpt_stored(rcpt, r, reply)
            /\ since' = [since EXCEPT !.rcpt = @ \/ reply = None]
            /\ accepted' = IF reply = None
                           THEN [rcpt |-> Some(r), n |-> Count(accepted.n)]
                           ELSE accepted
            /\ last' = Call("rcpt", "returned", reply, answer, FALSE, Some(r))
    /\ NoEffects
    /\ UNCHANGED <<config, from, data, pc, job, done, chunks, tlsVars, mainVars>>

-----------------------------------------------------------------------------
(* The message: what MessageParser::parse and the accessors of Message give *)
(* for a buffer.  A buffer is a sequence of fragments:                     *)
(*   "M" a header block with Message-ID and Date, "I" one with Message-ID  *)
(*   only, "D" one with Date only, "T" a text part, "H" an HTML part,      *)
(*   "BA" two attachments named "B" and "A", in that order, "U" an          *)
(*   attachment without a name.                                            *)

HeaderFragments == { "M", "I", "D" }
PartFragments == { "T", "H", "BA", "U" }
Fragments == HeaderFragments \cup PartFragments

\* MessageParser::parse: None when the bytes hold no header at all
Parse(buf) ==
    IF \E i \in 1..Len(buf) : buf[i] \in HeaderFragments THEN Some(buf) ELSE None

\* the MIME parts a fragment holds
parts_of(f) ==
    IF f \in HeaderFragments THEN << >>
    ELSE IF f = "BA" THEN <<"B", "A">>
    ELSE <<f>>

RECURSIVE parts(_)
parts(m) == IF m = << >> THEN << >> ELSE parts_of(Head(m)) \o parts(Tail(m))

IsText(part) == part = "T"
IsHtml(part) == part = "H"
IsAttachment(part) == part \in { "A", "B", "U" }
HasMessageId(f) == f \in { "M", "I" }
HasDate(f) == f \in { "M", "D" }

message_id(m) == IF \E i \in 1..Len(m) : HasMessageId(m[i]) THEN Some("1@x.com") ELSE None
date(m) == IF \E i \in 1..Len(m) : HasDate(m[i]) THEN Some("2023-01-01T00:00:00Z") ELSE None
attachments(m) == SelectSeq(parts(m), IsAttachment)
text_bodies(m) == SelectSeq(parts(m), IsText)
html_bodies(m) == SelectSeq(parts(m), IsHtml)
\* a variant that gives an attachment without a name a name of its own
attachment_name_or_default(part) == Some(part)

attachment_name(part) == IF part = "U" THEN None ELSE Some(part)

\* the bytes of a part; text parts carry surrounding white space
contents(part) ==
    IF part = "T" THEN <<" ", "t", " ">>
    ELSE IF part = "H" THEN <<"h", " ">>
    ELSE <<part>>

\* Iterator::next
next(seq) == IF seq = << >> THEN None ELSE Some(Head(seq))

RECURSIVE TrimStart(_)
TrimStart(s) == IF s /= << >> /\ Head(s) = " " THEN TrimStart(Tail(s)) ELSE s

RECURSIVE TrimEnd(_)
TrimEnd(s) ==
    IF s /= << >> /\ s[Len(s)] = " " THEN TrimEnd(SubSeq(s, 1, Len(s) - 1)) ELSE s

\* str::trim
trim(s) == TrimEnd(TrimStart(s))

\* body.and_then(MessagePart::text_contents).unwrap_or("").trim()
body_field(body) == trim(IF IsSome(body) THEN contents(Unwrap(body)) ELSE << >>)

\* message.headers_raw().map(|(k, v)| (k, v.trim())).collect::<HashMap>()
headers_map(m) ==
    [ k \in { h \in { "Message-ID", "Date" } :
                IF h = "Message-ID" THEN IsSome(message_id(m)) ELSE IsSome(date(m)) }
      |-> IF k = "Message-ID" THEN Unwrap(message_id(m)) ELSE Unwrap(date(m)) ]

\* serde_json::to_vec_pretty of the header map: its keys and values
to_vec_pretty(map) ==
    (IF "Date" \in DOMAIN map THEN <<"Date", map["Date"]>> ELSE << >>)
        \o (IF "Message-ID" \in DOMAIN map THEN <<"Message-ID", map["Message-ID"]>> ELSE << >>)

-----------------------------------------------------------------------------
(* s3::upload_message: the part before the uploads run *)

\* str::to_lowercase on an address
Lower(s) == IF s = "B" THEN "b" ELSE s
to_lowercase(addr) == <<Lower(addr[1]), Lower(addr[2])>>

\* line 26: format!("{}/{}/{}-{}/", rcpt.to_lowercase(), from, date, message_id)
base_path(f, r, m) ==
    [rcpt |-> to_lowercase(r), from |-> f, date |-> Unwrap(date(m)),
     message_id |-> Unwrap(message_id(m))]

ObjectPath(base, file, ix, name) == [base |-> base, file |-> file, ix |-> ix, name |-> name]

\* mime_guess::from_path(path).first_raw(): by the extension of the key
mime_guess(path) ==
    IF path.file = "headers.json" THEN Some("application/json")
    ELSE IF path.file = "body.txt" THEN Some("text/plain")
    ELSE IF path.file = "body.html" THEN Some("text/html")
    ELSE None

\* upload_file's arguments (bucket and client are the same for every call)
UploadFile(path, body) == [path |-> path, body |-> body, content_type |-> mime_guess(path)]

\* a variant that numbers the attachments from 1
attachment_ix_from_one(i) == i

\* line 40: the key of the attachment at position i (1-based here, ix = i - 1)
attachment_ix(i) == i - 1

attachment_path(base, i, part) ==
    ObjectPath(base, "attachments", attachment_ix(i), Unwrap(attachment_name(part)))

\* lines 32-53: one upload per attachment, in message order
attachment_uploads(base, m) ==
    [ i \in 1..Len(attachments(m)) |->
        UploadFile(attachment_path(base, i, attachments(m)[i]), contents(attachments(m)[i])) ]

\* lines 42-49: the descriptor pushed for each attachment, in the same order
attachments_metadata(base, m) ==
    [ i \in 1..Len(attachments(m)) |->
        [ index        |-> attachment_ix(i),
          filename     |-> Unwrap(attachment_name(attachments(m)[i])),
          rel_path     |-> attachment_path(base, i, attachments(m)[i]),
          content_type |-> mime_guess(attachment_path(base, i, attachments(m)[i])) ] ]

\* lines 55-59
headers_upload(base, m) ==
    << UploadFile(ObjectPath(base, "headers.json", 0, ""), to_vec_pretty(headers_map(m))) >>

\* lines 62-71
body_text_upload(base, m) ==
    IF IsSome(next(text_bodies(m)))
    THEN << UploadFile(ObjectPath(base, "body.txt", 0, ""), contents(Unwrap(next(text_bodies(m))))) >>
    ELSE << >>

\* lines 74-83
body_html_upload(base, m) ==
    IF IsSome(next(html_bodies(m)))
    THEN << UploadFile(ObjectPath(base, "body.html", 0, ""), contents(Unwrap(next(html_bodies(m))))) >>
    ELSE << >>

\* the vector of upload futures handed to try_join_all
uploads_of(base, m) ==
    attachment_uploads(base, m) \o headers_upload(base, m)
        \o body_text_upload(base, m) \o body_html_upload(base, m)

\* lines 24, 25 and 36-38: the checks that fail the call before any upload is made
upload_precheck_fails(m) ==
    \/ message_id(m) = None
    \/ date(m) = None
    \/ \E i \in 1..Len(attachments(m)) : attachment_name(attachments(m)[i]) = None

(* The call of db::insert_mail.  s3.rs lines 89-104 pass, after the pool,   *)
(* four strings (rcpt, from, body_text, body_html) and two JSON values     *)
(* (headers, attachments); db.rs lines 10-16 declare five strings           *)
(* (message_id, rcpt, from, body_text, body_html) and two JSON values.     *)
(* The call does not match the declaration, and the source does not say     *)
(* which of the five string parameters is the one left without an          *)
(* argument: each of them is an outcome.  The JSON values go to headers     *)
(* and attachments in every outcome.                                       *)

\* the arguments of the call, in the order they are written
insert_mail_call(r, f, body_text, body_html, headers, atts) ==
    [ strings |-> <<r, f, body_text, body_html>>, headers |-> headers, attachments |-> atts ]

\* the string parameters of db::insert_mail, by position
StringParams == 1..5

\* a parameter that got no argument
Unbound == <<"unbound">>

\* the strings bound to the string parameters when parameter gap gets none
bind(strings, gap) ==
    SubSeq(strings, 1, gap - 1) \o <<Unbound>> \o SubSeq(strings, gap, Len(strings))

\* db.rs lines 19-30: the row written, each column from its parameter
insert_mail_row(call, gap) ==
    LET p == bind(call.strings, gap)
    IN [ message_id |-> p[1], to |-> p[2], from |-> p[3], body_text |-> p[4],
         body_html |-> p[5], headers |-> call.headers, attachments |-> call.attachments ]

row_of(f, r, base, m) ==
    insert_mail_call(r, f, body_field(next(text_bodies(m))), body_field(next(html_bodies(m))),
                     headers_map(m), attachments_metadata(base, m))

-----------------------------------------------------------------------------
(* SmtpSession::data_start *)

data_start ==
    /\ pc = "idle"
    /\ last' = Returned("data_start", None, "none")
    /\ NoEffects
    /\ UNCHANGED <<config, from, rcpt, data, pc, job, done, since, chunks, accepted, tlsVars, mainVars>>

-----------------------------------------------------------------------------
(* SmtpSession::data and SmtpSession::bdat: reading the body *)

data_begin ==
    /\ pc = "idle"
    /\ data' = << >>                              \* self.data = Vec::new()
    /\ pc' = "data"
    /\ last' = Running("data")
    /\ NoEffects
    /\ UNCHANGED <<config, from, rcpt, job, done, since, chunks, accepted, tlsVars, mainVars>>

bdat_begin(is_last) ==
    /\ pc = "idle"
    /\ pc' = IF is_last THEN "bdat_last" ELSE "bdat"
    /\ last' = [Running("bdat") EXCEPT !.arg = Some(is_last)]
    /\ NoEffects
    /\ UNCHANGED <<config, from, rcpt, data, job, done, since, chunks, accepted, tlsVars, mainVars>>

\* stream.try_next() yields a line or chunk: self.data.extend(..)
extend(buf, chunk) == buf \o <<chunk>>

read_chunk(chunk) ==
    /\ pc \in { "data", "bdat", "bdat_last" }
    /\ Len(data) < MaxLen
    /\ Len(chunks) < MaxLen
    /\ data' = extend(data, chunk)
    /\ chunks' = Append(chunks, chunk)
    /\ UNCHANGED <<config, from, rcpt, pc, job, done, blobs, rows, last, since, accepted, tlsVars, mainVars>>

\* a variant that logs the error of the stream and goes on with what was read
read_error_ignored ==
    /\ pc \in { "data", "bdat", "bdat_last" }
    /\ last.outcome = "running"
    /\ last' = [last EXCEPT !.outcome = "error"]
    /\ UNCHANGED <<config, from, rcpt, data, pc, job, done, blobs, rows, since, chunks, accepted,
                   tlsVars, mainVars>>

\* stream.try_next() yields an error: `?` returns it and the transport closes
read_error ==
    /\ pc \in { "data", "bdat", "bdat_last" }
    /\ pc' = "closed"
    /\ last' = [last EXCEPT !.outcome = "error"]
    /\ UNCHANGED <<config, from, rcpt, data, job, done, blobs, rows, since, chunks, accepted,
                   tlsVars, mainVars>>

\* a bdat that is not the last returns Ok(None) at the end of its chunk
bdat_end ==
    /\ pc = "bdat"
    /\ pc' = "idle"
    /\ last' = [last EXCEPT !.outcome = "returned"]
    /\ UNCHANGED <<config, from, rcpt, data, job, done, blobs, rows, since, chunks, accepted,
                   tlsVars, mainVars>>

-----------------------------------------------------------------------------
(* SmtpSession::handle_data, called at the end of data and of the last bdat *)

cmd_of(p) == IF p = "data" THEN "data" ELSE "bdat"

\* a variant that reports a failure as permanent
error_reply_permanent == Some(550)

\* lines 253-256 and 276-279: Err(e) becomes reply 451
error_reply == Some(451)

\* lines 252 and 275
ok_reply(cmd) == IF cmd = "data" THEN Some(250) ELSE None

\* lines 98-99: from.take().unwrap() panics first, then rcpt.take().unwrap()
handle_data_panics(f, r) == f = None \/ r = None

handle_data_panic ==
    /\ pc \in { "data", "bdat_last" }
    /\ handle_data_panics(from, rcpt)
    /\ from' = None                               \* take() ran before the panic
    /\ rcpt' = IF from = None THEN rcpt ELSE None
    /\ pc' = "panicked"
    /\ last' = [last EXCEPT !.outcome = "panicked"]
    /\ chunks' = << >>
    /\ accepted' = NoneAccepted
    /\ UNCHANGED <<config, data, job, done, blobs, rows, since, tlsVars, mainVars>>

\* lines 100-103: the message does not parse
handle_data_unparsed ==
    /\ pc \in { "data", "bdat_last" }
    /\ ~handle_data_panics(from, rcpt)
    /\ Parse(data) = None
    /\ from' = None
    /\ rcpt' = None
    /\ pc' = "idle"
    /\ last' = [last EXCEPT !.outcome = "returned", !.reply = error_reply]
    /\ chunks' = << >>                            \* the transaction has ended
    /\ accepted' = NoneAccepted
    /\ UNCHANGED <<config, data, job, done, blobs, rows, since, tlsVars, mainVars>>

\* upload_message is called and fails before it uploads anything
handle_data_rejected ==
    /\ pc \in { "data", "bdat_last" }
    /\ ~handle_data_panics(from, rcpt)
    /\ Parse(data) /= None
    /\ upload_precheck_fails(Unwrap(Parse(data)))
    /\ from' = None
    /\ rcpt' = None
    /\ pc' = "idle"
    /\ last' = [last EXCEPT !.outcome = "returned", !.reply = error_reply, !.invoked = TRUE]
    /\ chunks' = << >>
    /\ accepted' = NoneAccepted
    /\ UNCHANGED <<config, data, job, done, blobs, rows, since, tlsVars, mainVars>>

\* upload_message is called and hands its uploads to try_join_all
handle_data_uploads ==
    /\ pc \in { "data", "bdat_last" }
    /\ ~handle_data_panics(from, rcpt)
    /\ Parse(data) /= None
    /\ ~upload_precheck_fails(Unwrap(Parse(data)))
    /\ LET m == Unwrap(Parse(data))
           base == base_path(Unwrap(from), Unwrap(rcpt), m)
       IN job' = [cmd |-> cmd_of(pc), uploads |-> uploads_of(base, m),
                  row |-> Some(row_of(Unwrap(from), Unwrap(rcpt), base, m)),
                  from |-> from, rcpt |-> rcpt]
    /\ from' = None
    /\ rcpt' = None
    /\ done' = {}
    /\ pc' = "uploading"
    /\ last' = [last EXCEPT !.invoked = TRUE]
    /\ chunks' = << >>
    /\ UNCHANGED <<config, data, blobs, rows, since, accepted, tlsVars, mainVars>>

-----------------------------------------------------------------------------
(* s3::upload_message: try_join_all(uploads), then db::insert_mail *)

\* put_object: the object replaces what the key held
put_object(store, obj) == { b \in store : b.path /= obj.path } \cup { obj }

\* a variant that deletes what it uploaded when the call fails
orphaned_deleted(store) == {}

\* lines 86 and 104: `?` returns the error, the objects put so far stay
orphaned(store) == store

upload_ok(i) ==
    /\ pc = "uploading"
    /\ i \in (1..Len(job.uploads)) \ done
    /\ blobs' = put_object(blobs, job.uploads[i])
    /\ done' = done \cup { i }
    /\ UNCHANGED <<config, from, rcpt, data, pc, job, rows, last, since, chunks, accepted, tlsVars, mainVars>>

\* one upload fails: try_join_all returns its error and drops the other futures
upload_err(i) ==
    /\ pc = "uploading"
    /\ i \in (1..Len(job.uploads)) \ done
    /\ pc' = "idle"
    /\ last' = [last EXCEPT !.outcome = "returned", !.reply = error_reply]
    /\ job' = NoJob
    /\ done' = {}
    /\ blobs' = orphaned(blobs)
    /\ accepted' = NoneAccepted
    /\ UNCHANGED <<config, from, rcpt, data, rows, since, chunks, tlsVars, mainVars>>

\* a variant that does not wait for the uploads before the insert
uploads_not_awaited(uploads, finished) == TRUE

\* line 86: try_join_all(uploads).await? has returned Ok
uploads_joined(uploads, finished) == finished = 1..Len(uploads)

insert_mail_ok ==
    /\ pc = "uploading"
    /\ uploads_joined(job.uploads, done)
    /\ \E gap \in StringParams : rows' = Append(rows, insert_mail_row(Unwrap(job.row), gap))
    /\ reset                                      \* line 119
    /\ pc' = "idle"
    /\ last' = [last EXCEPT !.outcome = "returned", !.reply = ok_reply(job.cmd)]
    /\ job' = NoJob
    /\ done' = {}
    /\ UNCHANGED <<config, blobs, tlsVars, mainVars>>

insert_mail_err ==
    /\ pc = "uploading"
    /\ uploads_joined(job.uploads, done)
    /\ pc' = "idle"
    /\ last' = [last EXCEPT !.outcome = "returned", !.reply = error_reply]
    /\ job' = NoJob
    /\ done' = {}
    /\ blobs' = orphaned(blobs)
    /\ accepted' = NoneAccepted
    /\ UNCHANGED <<config, from, rcpt, data, rows, since, chunks, tlsVars, mainVars>>

-----------------------------------------------------------------------------
(* tls::CertificateResolver.  A file is None when it is absent, else the   *)
(* sequence of the PEM items it holds, each a version number.  A           *)
(* CertifiedKey records, with its chain and its key, the load call that     *)
(* read each of them.                                                      *)

FileContents == { None, Some(<< >>) } \cup { Some(<<v>>) : v \in 1..MaxVersion }

Conns == 1..NumConns

\* CertifiedKey::new(certs, key), built by load call n
CertifiedKey(n, certs, key) ==
    [certs |-> certs, key |-> key, cert_load |-> n, key_load |-> n]

Idle(result) == [pc |-> "idle", load |-> 0, certs |-> << >>, pair |-> None, result |-> result]

\* CertificateResolver::new: the first load has succeeded
InitTls ==
    /\ cert_file = Some(<<1>>)
    /\ key_file = Some(<<1>>)
    /\ certified_key = CertifiedKey(0, <<1>>, 1)
    /\ refresh = Idle("none")
    /\ loads = 0
    /\ handshakes = [c \in Conns |-> None]
    /\ loaded = CertifiedKey(0, <<1>>, 1)

\* main has called neither watch_certs nor, for this connection, smtp_server.
\* watch: pc is the position of watch_certs; debouncer is its local of that
\* name; pending tells whether the debouncer holds events not yet handed on;
\* channel is the mpsc channel of capacity 1; task is the spawned loop, which
\* awaits recv() whenever it is running and no refresh() is in progress.
\* changes counts the changes that the debouncer recorded, and unserved tells
\* whether one of them happened after watch_certs returned with no refresh()
\* started since (both are history).
\* conn: stage is the stream the command loop runs on; enable_starttls is the
\* field of smtp_config; offered is what tls_request returned to the loop;
\* tls_config is what the TlsAcceptor was built from; upgrades counts the
\* TLS handshakes accepted on the connection (history).
InitMain ==
    /\ watch = [pc |-> "start", debouncer |-> "none", pending |-> FALSE, channel |-> << >>,
                task |-> "none", changes |-> 0, unserved |-> FALSE]
    /\ conn = [stage |-> "plain", enable_starttls |-> TRUE, offered |-> None,
               tls_config |-> None, upgrades |-> 0]

Init == InitSession /\ InitTls /\ InitMain

\* the files change on disk, one at a time (a replace may pass through absence)
write_cert(file) ==
    /\ file /= cert_file
    /\ cert_file' = file
    /\ UNCHANGED <<sessionVars, mainVars, key_file, certified_key, refresh, loads, handshakes, loaded>>

write_key(file) ==
    /\ file /= key_file
    /\ key_file' = file
    /\ UNCHANGED <<sessionVars, mainVars, cert_file, certified_key, refresh, loads, handshakes, loaded>>

\* refresh() is called: load_certs_and_key starts
refresh_call ==
    /\ refresh.pc = "idle"
    /\ loads < MaxLoads
    /\ loads' = loads + 1
    /\ refresh' = [pc |-> "certs", load |-> loads + 1, certs |-> << >>, pair |-> None,
                   result |-> "none"]

\* refresh() called at any moment
refresh_begin ==
    /\ refresh_call
    /\ UNCHANGED <<sessionVars, mainVars, cert_file, key_file, certified_key, handshakes, loaded>>

\* lines 34-38: File::open(cert_path)? fails when the file is absent; every
\* certificate item of the file is taken, also when there is none
load_certs ==
    /\ refresh.pc = "certs"
    /\ refresh' = IF cert_file = None
                  THEN Idle("err")
                  ELSE [refresh EXCEPT !.pc = "key", !.certs = Unwrap(cert_file)]
    /\ UNCHANGED <<sessionVars, mainVars, cert_file, key_file, certified_key, loads, handshakes, loaded>>

\* lines 39-45: the first private key of the key file, or an error
first_key(file) ==
    IF file = None THEN None               \* File::open(key_path)?
    ELSE next(Unwrap(file))                \* .next().context("no private key found")?

load_key ==
    /\ refresh.pc = "key"
    /\ IF first_key(key_file) = None
       THEN /\ refresh' = Idle("err")
            /\ UNCHANGED loaded
       ELSE LET pair == CertifiedKey(refresh.load, refresh.certs, Unwrap(first_key(key_file)))
            IN /\ refresh' = [refresh EXCEPT !.pc = "store", !.pair = Some(pair)]
               /\ loaded' = pair
    /\ UNCHANGED <<sessionVars, mainVars, cert_file, key_file, certified_key, loads, handshakes>>

\* a variant that never installs what it loaded
swap_store_nothing(old, new) == old

\* a variant that replaces the chain and the key one after the other
swap_store_chain_only(old, new) == [old EXCEPT !.certs = new.certs, !.cert_load = new.cert_load]

\* line 72: self.certified_key.store(Arc::new(certified_key))
swap_store(old, new) == new

refresh_store ==
    /\ refresh.pc = "store"
    /\ certified_key' = swap_store(certified_key, Unwrap(refresh.pair))
    /\ refresh' = Idle("ok")
    /\ UNCHANGED <<sessionVars, mainVars, cert_file, key_file, loads, handshakes, loaded>>

\* CertificateResolver::resolve
resolve == Some(certified_key)

\* a TLS handshake starts on connection c and asks the resolver
handshake_resolve(c) ==
    /\ handshakes[c] = None
    /\ handshakes' = [handshakes EXCEPT ![c] = resolve]
    /\ UNCHANGED <<sessionVars, mainVars, cert_file, key_file, certified_key, refresh, loads, loaded>>

\* the handshake of connection c ends and drops its Arc
handshake_end(c) ==
    /\ handshakes[c] /= None
    /\ handshakes' = [handshakes EXCEPT ![c] = None]
    /\ UNCHANGED <<sessionVars, mainVars, cert_file, key_file, certified_key, refresh, loads, loaded>>

NextTls ==
    \/ \E file \in FileContents : write_cert(file)
    \/ \E file \in FileContents : write_key(file)
    \/ refresh_begin
    \/ load_certs
    \/ load_key
    \/ refresh_store
    \/ \E c \in Conns : handshake_resolve(c)
    \/ \E c \in Conns : handshake_end(c)

-----------------------------------------------------------------------------

Next ==
    \/ ehlo
    \/ helo
    \/ rset
    \/ \E path \in ReversePaths : mail(path)
    \/ \E path \in ForwardPaths : rcpt_panic(path)
    \/ \E path \in ForwardPaths : rcpt_checked(path)
    \/ data_start
    \/ data_begin
    \/ \E is_last \in BOOLEAN : bdat_begin(is_last)
    \/ \E chunk \in Fragments : read_chunk(chunk)
    \/ read_error
    \/ bdat_end
    \/ handle_data_panic
    \/ handle_data_unparsed
    \/ handle_data_rejected
    \/ handle_data_uploads
    \/ \E i \in 1..Len(job.uploads) : upload_ok(i)
    \/ \E i \in 1..Len(job.uploads) : upload_err(i)
    \/ insert_mail_ok
    \/ insert_mail_err

Spec == Init /\ [][Next]_vars

\* the resolver, its watcher and the handshakes, beside one idle session
DefaultConfig == [allowed_rcpts |-> None, allowed_froms |-> None, check_db |-> FALSE,
                  domain |-> ServerDomain, tls_config |-> ServerConfig]

InitDefault == Init /\ config = DefaultConfig

SpecTls == InitDefault /\ [][NextTls]_vars

-----------------------------------------------------------------------------
(* notify::watch_certs and notify::setup_watcher *)

\* lines 18-31: setup_watcher builds the channel and the debouncer, and the
\* directories of the two files are watched
watch_dirs ==
    /\ watch.pc = "start"
    /\ watch' = [watch EXCEPT !.pc = "watching", !.debouncer = "alive"]
    /\ UNCHANGED <<sessionVars, tlsVars, conn>>

\* line 49: the local `debouncer` is not captured by the spawned closure, so
\* it is dropped when watch_certs returns; dropping it stops the debouncer
\* and its watcher, and drops the Sender its callback owns
debouncer_at_return(w) == [w EXCEPT !.debouncer = "dropped", !.pending = FALSE]

\* lines 33-49: the loop is spawned and watch_certs returns Ok(())
spawn_and_return ==
    /\ watch.pc = "watching"
    /\ watch' = debouncer_at_return([watch EXCEPT !.pc = "returned", !.task = "running"])
    /\ UNCHANGED <<sessionVars, tlsVars, conn>>

\* the watched directory changes: a live debouncer records the event
changed(w) ==
    [w EXCEPT !.pending = (w.debouncer = "alive"),
              !.changes = IF w.debouncer = "alive" THEN w.changes + 1 ELSE w.changes,
              !.unserved = w.unserved \/ (w.pc = "returned")]

\* the changes that a debouncer records are followed up to MaxLoads, so that
\* every event has a refresh() call left; the others are not bounded
Followed(w) == (w.debouncer = "alive") => (w.changes < MaxLoads)

change_cert(file) ==
    /\ Followed(watch)
    /\ file /= cert_file
    /\ cert_file' = file
    /\ watch' = changed(watch)
    /\ UNCHANGED <<sessionVars, conn, key_file, certified_key, refresh, loads, handshakes, loaded>>

change_key(file) ==
    /\ Followed(watch)
    /\ file /= key_file
    /\ key_file' = file
    /\ watch' = changed(watch)
    /\ UNCHANGED <<sessionVars, conn, cert_file, certified_key, refresh, loads, handshakes, loaded>>

\* lines 57-61: tx.try_send(res); a result that finds the channel full is
\* logged and lost
try_send(channel, res) == IF Len(channel) < 1 THEN Append(channel, res) ELSE channel

\* line 56: two seconds after a burst the debouncer hands its events on, as one
debounce_timeout ==
    /\ watch.debouncer = "alive"
    /\ watch.pending
    /\ watch' = [watch EXCEPT !.pending = FALSE, !.channel = try_send(watch.channel, "Ok")]
    /\ UNCHANGED <<sessionVars, tlsVars, conn>>

\* the watcher reports an error, which the debouncer hands on as Err
watcher_error ==
    /\ watch.debouncer = "alive"
    /\ watch' = [watch EXCEPT !.channel = try_send(watch.channel, "Err")]
    /\ UNCHANGED <<sessionVars, tlsVars, conn>>

\* a variant in which the task polls recv() without awaiting refresh()
AtRecv_not_awaiting == watch.task = "running"

\* the spawned task is at rx.recv().await
AtRecv == watch.task = "running" /\ refresh.pc = "idle"

\* lines 34-41: Some(Ok(event)) is received and refresh() is called
recv_event ==
    /\ AtRecv
    /\ watch.channel = <<"Ok">>
    /\ refresh_call
    /\ watch' = [watch EXCEPT !.channel = << >>, !.unserved = FALSE]
    /\ UNCHANGED <<sessionVars, conn, cert_file, key_file, certified_key, handshakes, loaded>>

\* lines 43-45: Some(Err(e)) is received and logged
recv_error ==
    /\ AtRecv
    /\ watch.channel = <<"Err">>
    /\ watch' = [watch EXCEPT !.channel = << >>]
    /\ UNCHANGED <<sessionVars, tlsVars, conn>>

\* line 34: recv() returns None once the channel is empty and its Sender is
\* dropped, and the loop ends
recv_closed ==
    /\ AtRecv
    /\ watch.channel = << >>
    /\ watch.debouncer = "dropped"
    /\ watch' = [watch EXCEPT !.task = "ended"]
    /\ UNCHANGED <<sessionVars, tlsVars, conn>>

NextWatch ==
    \/ watch_dirs
    \/ spawn_and_return
    \/ \E file \in FileContents : change_cert(file)
    \/ \E file \in FileContents : change_key(file)
    \/ debounce_timeout
    \/ watcher_error
    \/ recv_event
    \/ recv_error
    \/ recv_closed
    \/ load_certs
    \/ load_key
    \/ refresh_store

\* the steps of the daemon are taken when they can be; the directory changes
\* and the watcher reports errors when they will
FairWatch ==
    /\ WF_vars(watch_dirs)
    /\ WF_vars(spawn_and_return)
    /\ WF_vars(debounce_timeout)
    /\ WF_vars(recv_event)
    /\ WF_vars(recv_error)
    /\ WF_vars(recv_closed)
    /\ WF_vars(load_certs)
    /\ WF_vars(load_key)
    /\ WF_vars(refresh_store)

SpecWatch == InitDefault /\ [][NextWatch]_vars /\ FairWatch

-----------------------------------------------------------------------------
(* main::handle_smtp_connection and SmtpSession::tls_request *)

\* smtp_server is running, on the plain stream or on the encrypted one
LoopRunning == conn.stage \in { "plain", "tls" }

\* smtp.rs lines 142-144
tls_request == Some(config.tls_config)

\* a STARTTLS command, which the loop accepts while enable_starttls is set: it
\* asks the handler and exits with LoopExit::STARTTLS(tls_config).  The first
\* loop's exit is matched at line 145; the second loop's at line 151, Ok(_).
starttls ==
    /\ LoopRunning
    /\ pc = "idle"
    /\ conn.enable_starttls
    /\ tls_request /= None
    /\ conn' = IF conn.stage = "plain"
               THEN [conn EXCEPT !.stage = "accepting", !.offered = tls_request]
               ELSE [conn EXCEPT !.stage = "closed"]
    /\ UNCHANGED <<sessionVars, tlsVars, watch>>

\* a variant that leaves smtp_config as it was
starttls_left_enabled(c) == c

\* line 148: smtp_config.enable_starttls = false
starttls_disabled(c) == [c EXCEPT !.enable_starttls = FALSE]

\* lines 146-148: TlsAcceptor::from(tls_config), and the handshake succeeds
accept_ok ==
    /\ conn.stage = "accepting"
    /\ conn' = starttls_disabled([conn EXCEPT !.stage = "tls",
                                              !.tls_config = conn.offered,
                                              !.upgrades = conn.upgrades + 1])
    /\ UNCHANGED <<sessionVars, tlsVars, watch>>

\* line 147: the handshake fails and `?` returns the error
accept_err ==
    /\ conn.stage = "accepting"
    /\ conn' = [conn EXCEPT !.stage = "closed"]
    /\ UNCHANGED <<sessionVars, tlsVars, watch>>

\* lines 144, 151-154 and 156: smtp_server returns Done or an error, and the
\* connection is closed
loop_exit ==
    /\ LoopRunning
    /\ pc = "idle"
    /\ conn' = [conn EXCEPT !.stage = "closed"]
    /\ UNCHANGED <<sessionVars, tlsVars, watch>>

NextConn ==
    \/ LoopRunning /\ Next
    \/ starttls
    \/ accept_ok
    \/ accept_err
    \/ loop_exit

\* one connection, of a daemon configured with both allow-lists and the
\* database check
StrictConfig ==
    [allowed_rcpts |-> Some({ Format("b", "y.com"), Format("postmaster", ServerDomain) }),
     allowed_froms |-> Some({ Format("a", "x.com") }),
     check_db |-> TRUE, domain |-> ServerDomain, tls_config |-> ServerConfig]

InitStrict == Init /\ config = StrictConfig

SpecConn == InitStrict /\ [][NextConn]_vars

-----------------------------------------------------------------------------
(* Properties of the session and of the pipeline *)

\* a step in which a handler call calls s3::upload_message
InvokesPipeline == ~last.invoked /\ last'.invoked

\* C1: the pipeline is invoked only by data or by a last bdat, and only when
\* a sender was set by mail and a recipient was accepted by rcpt since the
\* last reset; in every other state no step invokes it.
C1_PipelineNeedsEnvelope ==
    [][ InvokesPipeline =>
          /\ pc \in { "data", "bdat_last" }
          /\ last.op \in { "data", "bdat" }
          /\ IsSome(from) /\ since.mail
          /\ IsSome(rcpt) /\ since.rcpt ]_vars

C1_Witness ==
    /\ pc = "uploading"
    /\ last.op = "bdat"
    /\ last.invoked
    /\ since.mail /\ since.rcpt

\* the recipient allow-set is configured and does not hold r
NotAllowedRcpt(r) ==
    IsSome(config.allowed_rcpts) /\ r \notin Unwrap(config.allowed_rcpts)

\* the sender allow-set is configured and does not hold f
NotAllowedFrom(f) ==
    IsSome(config.allowed_froms) /\ f \notin Unwrap(config.allowed_froms)

\* a step that is a call of rcpt
RcptCall == pc = "idle" /\ last'.op = "rcpt"

\* C2 as stated: an rcpt whose resolved recipient is not in the configured
\* recipient allow-set returns 550 and the session's recipient is unset then,
\* in every session state.
C2_Original ==
    (last.op = "rcpt" /\ last.outcome = "returned" /\ NotAllowedRcpt(Unwrap(last.arg)))
        => (last.reply = Some(550) /\ rcpt = None)

\* C2 amended: an rcpt whose resolved recipient is not in the configured
\* recipient allow-set never stores that recipient and leaves the session's
\* recipient as it was before the call: with a sender present it returns 550,
\* with the sender absent it panics without a reply.
C2_RefusedRcptKeepsRecipient ==
    [][ (RcptCall /\ NotAllowedRcpt(Unwrap(last'.arg))) =>
          /\ rcpt' = rcpt
          /\ rcpt' /= last'.arg
          /\ IF IsSome(from)
             THEN last'.outcome = "returned" /\ last'.reply = Some(550)
             ELSE last'.outcome = "panicked" /\ last'.reply = None ]_vars

C2_Witness ==
    /\ last.op = "rcpt"
    /\ NotAllowedRcpt(Unwrap(last.arg))
    /\ last.reply = Some(550)
    /\ IsSome(rcpt)

\* C3: with a sender allow-set configured and the session's sender not in it,
\* every rcpt returns 550, whether or not the recipient is allowed, and does
\* not store its recipient.
C3_SenderNotAllowed ==
    [][ (RcptCall /\ IsSome(from) /\ NotAllowedFrom(Unwrap(from))) =>
          /\ last'.outcome = "returned"
          /\ last'.reply = Some(550)
          /\ rcpt' = rcpt ]_vars

C3_Witness ==
    /\ last.op = "rcpt"
    /\ last.reply = Some(550)
    /\ IsSome(from) /\ NotAllowedFrom(Unwrap(from))
    /\ IsSome(config.allowed_rcpts) /\ Unwrap(last.arg) \in Unwrap(config.allowed_rcpts)

\* an rcpt call that returned and whose sender and recipient pass both allow-sets
PassedAllowSets ==
    /\ RcptCall
    /\ IsSome(from)
    /\ ~NotAllowedFrom(Unwrap(from))
    /\ ~NotAllowedRcpt(Unwrap(last'.arg))

\* C4: for an rcpt that passed both allow-set checks, with the database check
\* enabled the database is asked and its answer decides: false gives 550,
\* an error gives 451, neither stores the recipient, true stores it and
\* returns no reply; with the check disabled no rcpt asks the database.
C4_DatabaseCheck ==
    [][ /\ (PassedAllowSets /\ config.check_db) =>
              /\ last'.db \in DbAnswers
              /\ last'.db = "false" => (last'.reply = Some(550) /\ rcpt' = rcpt)
              /\ last'.db = "error" => (last'.reply = Some(451) /\ rcpt' = rcpt)
              /\ last'.db = "true" => (last'.reply = None /\ rcpt' = last'.arg)
        /\ (RcptCall /\ ~config.check_db) => last'.db = "none" ]_vars

C4_Witness ==
    /\ last.op = "rcpt"
    /\ last.db = "error"
    /\ last.reply = Some(451)
    /\ config.check_db

\* every upload of the call in progress has been stored
AllUploaded == \A i \in 1..Len(job.uploads) : job.uploads[i] \in blobs

\* C5: the metadata row is inserted only after every upload of the message
\* has succeeded; when an upload fails no row is inserted and the handler
\* replies 451.
C5_InsertAfterUploads ==
    [][ /\ rows' /= rows /\ rows' /= << >> =>
              (pc = "uploading" /\ AllUploaded /\ done = 1..Len(job.uploads))
        /\ (pc = "uploading" /\ pc' = "idle" /\ ~AllUploaded) =>
              /\ rows' = << >>
              /\ last'.outcome = "returned"
              /\ last'.reply = Some(451) ]_vars

C5_Witness ==
    /\ pc = "idle"
    /\ last.op = "data"
    /\ last.invoked
    /\ last.reply = Some(451)
    /\ blobs /= {}
    /\ rows = << >>

\* the names of the named attachments a buffer holds, in message order
RECURSIVE NamedAttachments(_)
NamedAttachments(buf) ==
    IF buf = << >> THEN << >>
    ELSE (IF Head(buf) = "BA" THEN <<"B", "A">> ELSE << >>) \o NamedAttachments(Tail(buf))

Holds(buf, f) == \E i \in 1..Len(buf) : buf[i] = f

\* the number of uploads of the call in progress that go to the given file
UploadsTo(file) == Cardinality({ i \in 1..Len(job.uploads) : job.uploads[i].path.file = file })

\* C6: a successful invocation on a message with N named attachments issues
\* exactly N attachment uploads, one headers.json upload, one body.txt upload
\* iff there is a text body, one body.html upload iff there is an HTML body,
\* and inserts exactly one row whose attachment descriptors are the N
\* attachments in message order with indices 0..N-1.
C6_UploadsAndRow ==
    [][ (pc = "uploading" /\ rows' /= rows) =>
          LET names == NamedAttachments(data)
              N == Len(names)
          IN /\ UploadsTo("attachments") = N
             /\ UploadsTo("headers.json") = 1
             /\ UploadsTo("body.txt") = (IF Holds(data, "T") THEN 1 ELSE 0)
             /\ UploadsTo("body.html") = (IF Holds(data, "H") THEN 1 ELSE 0)
             /\ Len(job.uploads) = Cardinality(blobs)
             /\ Len(rows') = 1
             /\ Len(rows'[1].attachments) = N
             /\ \A i \in 1..N :
                  /\ rows'[1].attachments[i].index = i - 1
                  /\ rows'[1].attachments[i].filename = names[i]
                  /\ \E j \in 1..Len(job.uploads) :
                        job.uploads[j].path = rows'[1].attachments[i].rel_path ]_vars

C6_Witness ==
    /\ last.outcome = "returned"
    /\ last.invoked
    /\ Len(rows) = 1
    /\ Len(rows[1].attachments) = 2
    /\ Cardinality(blobs) = 3

\* C9: after rset, ehlo or helo the session is in the state of a session just
\* created from the same snapshot: no sender, no recipient, an empty buffer,
\* nothing in progress.
C9_ResetIsFresh ==
    last.op \in { "rset", "ehlo", "helo" } =>
        /\ from = None
        /\ rcpt = None
        /\ data = << >>
        /\ pc = "idle"
        /\ job = NoJob
        /\ done = {}
        /\ since = [mail |-> FALSE, rcpt |-> FALSE]

C9_Witness == last.op = "rset" /\ from = None /\ rcpt = None /\ data = << >>

\* C10 as stated: when the pipeline runs, the session's sender, recipient and
\* buffer have all been cleared.
C10_Original ==
    pc = "uploading" => (from = None /\ rcpt = None /\ data = << >>)

\* data, or a bdat with last = true, has returned its reply
BodyCallReturned ==
    /\ last.outcome = "returned"
    /\ \/ last.op = "data"
       \/ last.op = "bdat" /\ last.arg = Some(TRUE)

\* C11 as stated: when data or a final bdat has returned its reply, whether
\* the pipeline succeeded or failed, the session has no sender, no recipient
\* and an empty buffer.
C11_Original ==
    BodyCallReturned => (from = None /\ rcpt = None /\ data = << >>)

\* a step of handle_data in a call that found a sender and a recipient
HandlesEnvelope ==
    /\ pc \in { "data", "bdat_last" }
    /\ IsSome(from) /\ IsSome(rcpt)
    /\ from' /= from

\* C12: for data and a final bdat with sender and recipient present, a
\* successful pipeline gives 250 from data and no reply from bdat, a message
\* that does not parse or a failing pipeline step gives 451 from both, and in
\* each case the handler returns normally and the session takes commands again.
C12_BodyReplies ==
    /\ [](BodyCallReturned =>
            /\ pc = "idle"
            /\ last.reply = IF rows /= << >>
                            THEN (IF last.op = "data" THEN Some(250) ELSE None)
                            ELSE Some(451))
    /\ [][ (HandlesEnvelope \/ pc = "uploading") =>
              /\ pc' \in { "idle", "uploading" }
              /\ last'.outcome = (IF pc' = "idle" THEN "returned" ELSE "running") ]_vars

C12_Witness ==
    /\ BodyCallReturned
    /\ last.op = "bdat"
    /\ last.reply = None
    /\ rows /= << >>
    /\ pc = "idle"

AfterNullMail == last.op = "mail" /\ last.arg = Some(None) /\ from = None

\* C14 as stated: mail never returns an error reply; after a mail with the
\* null reverse-path (and no sender set before) the sender is absent; and the
\* handler called next, rcpt or data_start, neither rejects the transaction
\* nor aborts the session task because the sender is absent.
C14_Original ==
    /\ [](last.op = "mail" => (last.outcome = "returned" /\ last.reply = None))
    /\ [][ (pc = "idle" /\ last'.op = "mail" /\ last'.arg = Some(None) /\ from = None)
              => from' = None ]_vars
    /\ [][ (AfterNullMail /\ last'.op \in { "rcpt", "data_start" })
              => (last'.outcome = "returned" /\ pc' = "idle") ]_vars

\* C16 as stated: a bdat with last = false appends its chunks to the buffer,
\* does not invoke the pipeline and returns no reply; among the bdat calls
\* only one with last = true invokes the pipeline, and the bytes it parses are
\* the chunks of the bdat calls of the current transaction, in arrival order.
C16_Original ==
    /\ []((last.op = "bdat" /\ last.arg = Some(FALSE)) =>
             (~last.invoked /\ last.reply = None /\ last.outcome /= "panicked"))
    /\ [][ (pc = "bdat" /\ data' /= data) =>
              (Len(data') = Len(data) + 1 /\ SubSeq(data', 1, Len(data)) = data) ]_vars
    /\ [][ (pc = "bdat_last" /\ HandlesEnvelope) => data = chunks ]_vars

\* the buffer holds a message without Message-ID, without Date or with an
\* attachment that has no name
Unstorable(buf) ==
    \/ ~(Holds(buf, "M") \/ Holds(buf, "I"))
    \/ ~(Holds(buf, "M") \/ Holds(buf, "D"))
    \/ Holds(buf, "U")

\* C17: when the parsed message has no Message-ID, no Date or an attachment
\* without a name, the pipeline fails before any upload and without an
\* insert: the call puts no object, inserts no row and replies 451.  (While
\* and after a call that invoked the pipeline the buffer holds the message
\* it parsed, unless the call succeeded and emptied it.)
C17_RejectedBeforeUploads ==
    (last.invoked /\ data /= << >> /\ Unstorable(data)) =>
        /\ pc = "idle"
        /\ last.outcome = "returned"
        /\ last.reply = Some(451)
        /\ blobs = {}
        /\ rows = << >>

C17_Witness ==
    /\ last.invoked
    /\ last.reply = Some(451)
    /\ Holds(data, "M")
    /\ Holds(data, "U")
    /\ blobs = {}

\* C18: nothing is deleted: every object put during an invocation is still
\* stored when the invocation ends, also when another upload or the insert
\* failed; and when a row is inserted every object of the message is stored,
\* the ones its attachment descriptors point to included.
C18_NoCompensatingDelete ==
    [][ /\ pc = "uploading" => blobs \subseteq blobs'
        /\ (pc = "uploading" /\ rows' /= rows) =>
              /\ \A i \in 1..Len(job.uploads) : job.uploads[i] \in blobs'
              /\ \A i \in 1..Len(rows'[1].attachments) :
                    \E b \in blobs' : b.path = rows'[1].attachments[i].rel_path ]_vars

C18_Witness ==
    /\ pc = "idle"
    /\ last.op = "bdat"
    /\ last.reply = Some(451)
    /\ Cardinality(blobs) = 3
    /\ rows = << >>

\* C19: the session keeps one recipient: each accepted rcpt replaces the
\* stored one, and a data or last bdat after several accepted rcpt calls
\* invokes the pipeline once, with the recipient of the last accepted one.
C19_LastRecipientWins ==
    [][ /\ (RcptCall /\ last'.outcome = "returned" /\ last'.reply = None) =>
              rcpt' = last'.arg
        /\ InvokesPipeline =>
              /\ IsSome(accepted.rcpt)
              /\ rcpt = accepted.rcpt
              /\ rcpt' = None
              /\ pc' = "uploading" => job'.rcpt = accepted.rcpt ]_vars

C19_Witness ==
    /\ pc = "uploading"
    /\ last.invoked
    /\ accepted.n = 2
    /\ job.rcpt = accepted.rcpt
    /\ job.rcpt = Some(Format("postmaster", ServerDomain))

\* C15: after watch_certs has returned, every change of the watched directory
\* is eventually followed by a refresh() that starts after it.
C15_Original == watch.unserved ~> ~watch.unserved

\* C20: on a connection at most one TLS upgrade happens; after the upgrade the
\* command loop runs on the encrypted stream with STARTTLS disabled until the
\* connection closes, and the TLS configuration used for the upgrade is the
\* one of the configuration snapshot the session was created with.
C20_OneUpgrade ==
    /\ [](conn.upgrades <= 1)
    /\ []((conn.upgrades = 1) =>
            (conn.stage \in { "tls", "closed" } /\ conn.tls_config = Some(config.tls_config)))
    /\ []((conn.stage = "tls") => (conn.upgrades = 1 /\ ~conn.enable_starttls))
    /\ [][(conn.stage = "tls") => (conn'.stage \in { "tls", "closed" })]_vars
    /\ [][(conn.stage = "closed") => (conn' = conn)]_vars

\* a mail command was handled on the encrypted stream
C20_Witness ==
    /\ conn.stage = "tls"
    /\ conn.upgrades = 1
    /\ conn.tls_config = Some(ServerConfig)
    /\ last.op = "mail"
    /\ since.mail

\* C22 as stated: whatever handler calls came before, the bytes that a data
\* or bdat call parses and hands to the pipeline are exactly the chunks
\* received by the data and bdat calls of the current mail transaction; so a
\* final bdat that follows a failed one, with a mail and an rcpt but no rset
\* or ehlo between them, delivers no byte of the failed message.
C22_Original ==
    [][ (pc \in { "data", "bdat_last" } /\ InvokesPipeline) => (data = chunks) ]_vars

\* C23: when the chunk stream yields an error while data or bdat reads the
\* body, the call returns the error to the transport, which closes the
\* connection, without a reply and without invoking the pipeline: it has put
\* no object and inserted no row for the partially received message, and no
\* step of the session follows.
C23_StreamErrorEndsCall ==
    /\ []((last.outcome = "error") =>
            (/\ last.op \in { "data", "bdat" }
             /\ pc = "closed"
             /\ last.reply = None
             /\ ~last.invoked
             /\ job = NoJob
             /\ blobs = {}
             /\ rows = << >>))
    /\ []((pc = "closed") => (last.outcome = "error"))
    /\ [][(pc = "closed") => (sessionVars' = sessionVars)]_vars

\* the stream failed in a final bdat that had received a part of a message,
\* for a transaction with a sender and a recipient
C23_Witness ==
    /\ last.outcome = "error"
    /\ last.op = "bdat"
    /\ last.arg = Some(TRUE)
    /\ IsSome(from)
    /\ IsSome(rcpt)
    /\ data /= << >>
    /\ Parse(data) /= None

-----------------------------------------------------------------------------
(* Properties of the watcher task *)

\* a step in which a refresh() call starts
RefreshStarts == loads' /= loads

\* a step in which the task's recv() returns: an event is taken from the
\* channel, or None ends the loop
RecvReturns ==
    /\ watch.task = "running"
    /\ (Len(watch'.channel) < Len(watch.channel) \/ watch'.task = "ended")

\* C21: refreshes never overlap, whatever the number and timing of the
\* file-change events: a refresh() starts only when none is executing, as the
\* task takes one Ok event from the channel, and the task's recv() returns
\* only when no refresh() is executing; a failed refresh() is not retried
\* until the next file-change event is received.
C21_RefreshesSerialized ==
    /\ [][RefreshStarts =>
            (/\ refresh.pc = "idle"
             /\ refresh'.pc = "certs"
             /\ loads' = loads + 1
             /\ watch.task = "running"
             /\ watch.channel = <<"Ok">>
             /\ watch'.channel = << >>)]_vars
    /\ [][RecvReturns => (refresh.pc = "idle")]_vars
    /\ [][(refresh.result = "err" /\ refresh' /= refresh) =>
            (watch.channel = <<"Ok">> /\ watch'.channel = << >>)]_vars

\* the directory changed while the refresh() of an event was executing, and
\* that refresh() has failed
C21_Witness ==
    /\ refresh.pc = "idle"
    /\ refresh.result = "err"
    /\ loads = 1
    /\ watch.unserved
    /\ watch.task = "running"

-----------------------------------------------------------------------------
(* Properties of the credential resolver *)

\* C7: when no refresh is running, resolve returns the pair of the most recent
\* successful load: a successful refresh has installed its pair, a failed one
\* has left the installed pair alone; and resolve always returns a pair.
C7_ResolveReturnsLastLoaded ==
    /\ IsSome(resolve)
    /\ refresh.pc = "idle" => resolve = Some(loaded)
    /\ refresh.result = "ok" => Unwrap(resolve).cert_load = loads

C7_Witness ==
    /\ refresh.pc = "idle"
    /\ refresh.result = "err"
    /\ loads = 2
    /\ resolve = Some(loaded)
    /\ loaded.cert_load = 1

\* C8: every pair a handshake got from resolve has its chain and its key from
\* one load call, whatever refresh is doing, and no step of a refresh changes
\* the pair a handshake holds.
C8_NoMixedPair ==
    /\ [](\A c \in Conns :
            IsSome(handshakes[c]) =>
                Unwrap(handshakes[c]).cert_load = Unwrap(handshakes[c]).key_load)
    /\ [][ \A c \in Conns :
             (IsSome(handshakes[c]) /\ refresh' /= refresh) =>
                 handshakes'[c] = handshakes[c] ]_vars

C8_Witness ==
    \E c \in Conns :
        /\ IsSome(handshakes[c])
        /\ Unwrap(handshakes[c]).cert_load = 0
        /\ certified_key.cert_load = 1
        /\ refresh.pc = "store"

====
